---- MODULE Spec2Model ----
(***************************************************************************)
(* OTIF alert assistant: the Dataset Store (tools/data_loader.py), the     *)
(* Action Executor (tools/action_functions.py) and the Conversation Memory *)
(* (memory/conversation_memory.py) as one state machine.                   *)
(*                                                                         *)
(* Text is a sequence of tokens, so that formatting (str of a numpy array, *)
(* repr of a str, an f-string) is computed and not assumed.  A call that   *)
(* raises is recorded as a result of kind "raise".                         *)
(***************************************************************************)
EXTENDS Integers, Sequences, FiniteSets, TLC

VARIABLES
    alert_file,     \* what Config.ALERT_FILE holds on disk
    bol_file,       \* what Config.BOL_FILE holds on disk
    alert_df,       \* DataLoader.alert_df
    bol_df,         \* DataLoader.bol_df
    combined_df,    \* DataLoader.combined_df
    action_log,     \* ActionExecutor.action_log
    clock,          \* readings of datetime.now() taken so far
    max_messages,   \* ConversationMemory.max_messages
    messages,       \* ConversationMemory.messages
    added,          \* history: the messages added since creation or the last clear()
    report_count,   \* ReportGenerator.report_count
    report_folder,  \* Config.REPORT_OUTPUT_FOLDER on disk: whether it exists, its files
    api_key,        \* whether Config.OPENAI_API_KEY is set
    initialized,    \* OTIFAlertSystem.initialized
    pc,             \* where start_conversation stands: "start", "loop" or "done"
    chats,          \* history: the calls of user_proxy.initiate_chat made so far
    last            \* history: the last call, its arguments and what the caller got

vars == <<alert_file, bol_file, alert_df, bol_df, combined_df, action_log,
          clock, max_messages, messages, added, report_count, report_folder,
          api_key, initialized, pc, chats, last>>

dataVars == <<alert_file, bol_file, alert_df, bol_df, combined_df, action_log>>
memVars  == <<max_messages, messages, added>>
reportVars  == <<report_count, report_folder>>
sessionVars == <<api_key, initialized, pc, chats>>

(***************************************************************************)
(* Bounds                                                                  *)
(***************************************************************************)
MaxClock == 2       \* readings of the clock an execution may take
MaxMax   == 3       \* largest max_messages a ConversationMemory is built with
MaxAdds  == 5       \* add_message calls in an execution
MaxTurns == 2       \* lines a session routes to the orchestrator
MaxReports == 2     \* reports an execution saves

(***************************************************************************)
(* Text                                                                    *)
(***************************************************************************)
SQ == "'"
DQ == "\""
BS == "\\"

RECURSIVE Concat(_)
Concat(ss) == IF ss = <<>> THEN <<>> ELSE Head(ss) \o Concat(Tail(ss))

HasTok(s, t) == \E i \in 1..Len(s) : s[i] = t

\* repr(str): double quotes when the text has ' and no ", else single quotes
\* with ' escaped; a backslash is always escaped
PyRepr(s) ==
    LET q == IF HasTok(s, SQ) /\ ~HasTok(s, DQ) THEN DQ ELSE SQ
        esc(t) == IF t = BS \/ t = q THEN <<BS, t>> ELSE <<t>>
    IN  <<q>> \o Concat([i \in 1..Len(s) |-> esc(s[i])]) \o <<q>>

\* a cell of a text column: NaN (an empty spreadsheet cell) or a str
NaN == [isna |-> TRUE, s |-> <<>>]
Str(s) == [isna |-> FALSE, s |-> s]

\* str() of a one-dimensional object array: "[" repr(e1) " " repr(e2) ... "]"
RECURSIVE NumpyElems(_)
NumpyElems(cells) ==
    IF cells = <<>> THEN <<>>
    ELSE (IF Head(cells).isna THEN <<"nan">> ELSE PyRepr(Head(cells).s))
         \o (IF Len(cells) > 1 THEN <<" ">> ELSE <<>>)
         \o NumpyElems(Tail(cells))

NumpyStr(cells) == <<"[">> \o NumpyElems(cells) \o <<"]">>

\* str.strip() of the strings in use: only these have blanks at an end
Strip(t) ==
    CASE t = "  " -> ""
      [] t = " HELP " -> "HELP"
      [] t = " bye" -> "bye"
      [] t = "Stop B9 " -> "Stop B9"
      [] OTHER -> t

\* str.lower() of the strings in use: only these have capitals
Lower(t) ==
    CASE t = "HELP" -> "help"
      [] t = "Quit" -> "quit"
      [] t = "Stop B9" -> "stop b9"
      [] t = "Yesterday" -> "yesterday"
      [] OTHER -> t

(***************************************************************************)
(* Tables and the two source files                                         *)
(***************************************************************************)
None == [kind |-> "None"]

DataFrame(cols, rws) == [kind |-> "df", columns |-> cols, rows |-> rws]

AlertColumns == {"BOL", "Customer", "Alert_Type", "OTIF_Risk_Score",
                 "Stop_Alert", "User_Notes"}
BolColumns   == {"BOL", "Carrier_Name", "Delivery_Status",
                 "No_of_Hours_Delayed", "User_Email_ID"}

AlertRow(b, cust, type, risk, notes) ==
    [BOL |-> b, Customer |-> cust, Alert_Type |-> type, OTIF_Risk_Score |-> risk,
     Stop_Alert |-> "No", User_Notes |-> notes]

BolRow(b, carrier, status, hours) ==
    [BOL |-> b, Carrier_Name |-> carrier, Delivery_Status |-> status,
     No_of_Hours_Delayed |-> hours, User_Email_ID |-> <<"ops@", carrier>>]

Missing == [kind |-> "missing"]        \* no such file
Corrupt == [kind |-> "corrupt"]        \* a file read_excel cannot parse
Sheet(cols, rws) == [kind |-> "xlsx", columns |-> cols, rows |-> rws]

\* the contents Alert.xlsx may have
AlertFiles ==
    { Missing,
      Sheet(AlertColumns \ {"BOL"}, <<>>),
      Sheet(AlertColumns, << AlertRow("B1", "Acme", "Late", 90, NaN),
                             AlertRow("B2", "Bolt", "Short", 40, Str(<<"old">>)) >>),
      Sheet(AlertColumns, << AlertRow("B1", "Acme", "Late", 90, NaN),
                             AlertRow("B1", "Acme", "Short", 80, NaN),
                             AlertRow("B2", "Bolt", "Short", 40, NaN) >>) }

\* the contents BOL.xlsx may have
BolFiles ==
    { Missing, Corrupt,
      Sheet(BolColumns \ {"BOL"}, <<>>),
      Sheet(BolColumns, << BolRow("B1", "X", "Delayed", 20),
                           BolRow("B3", "Y", "On Time", 0) >>),
      Sheet(BolColumns, << BolRow("B1", "X", "Delayed", 20),
                           BolRow("B1", "Y", "On Time", 0),
                           BolRow("B3", "Y", "On Time", 0) >>) }

\* arguments the callers pass
BOLS    == {"B1", "B2", "B9"}
REASONS == {"resolved", "dup"}
NOTES   == {<<"n1">>, <<"it", SQ, "s late">>}
\* what the external text collaborator does with a request
LLM     == {[ok |-> FALSE, text |-> <<>>], [ok |-> TRUE, text |-> <<"polished">>]}

(***************************************************************************)
(* Outcomes of a computation: a value, or an exception                     *)
(***************************************************************************)
Ok(v)     == [kind |-> "ok", val |-> v]
Raise(e)  == [kind |-> "raise", exc |-> e]

\* class hierarchy: which exceptions an `except FileNotFoundError` catches
IsFileNotFound(e) == e = "FileNotFoundError"

(***************************************************************************)
(* DataLoader                                                              *)
(***************************************************************************)
\* pd.read_excel(path)
ReadExcel(file) ==
    IF file.kind = "missing" THEN Raise("FileNotFoundError")
    ELSE IF file.kind = "corrupt" THEN Raise("ValueError")
    ELSE Ok(DataFrame(file.columns, file.rows))

MatchRows_Left(l, rrows) ==
    LET m == SelectSeq(rrows, LAMBDA r : r.BOL = l.BOL)
    IN  IF m = <<>> THEN <<l>> ELSE [i \in 1..Len(m) |-> l @@ m[i]]

\* the rows of right matching one left row, in right's order
MatchRows(l, rrows) ==
    LET m == SelectSeq(rrows, LAMBDA r : r.BOL = l.BOL)
    IN  [i \in 1..Len(m) |-> l @@ m[i]]

\* the column name after a merge: a column of both tables other than the key
\* gets the suffix of its side
Suffixed(col, overlap, suffix) == IF col \in overlap THEN col \o suffix ELSE col

\* a row under the column names of the merge
Rename(row, overlap, suffix) ==
    [n \in {Suffixed(c, overlap, suffix) : c \in DOMAIN row} |->
        row[CHOOSE c \in DOMAIN row : Suffixed(c, overlap, suffix) = n]]

\* a table under the column names of the merge: the columns it shares with
\* the other table get the suffix
Renamed(table, shared, suffix) ==
    DataFrame({Suffixed(c, shared, suffix) : c \in table.columns},
              [i \in 1..Len(table.rows) |-> Rename(table.rows[i], shared, suffix)])

\* every pair of rows with equal BOL, in left order
JoinTables(left, right) ==
    DataFrame(left.columns \cup right.columns,
              Concat([i \in 1..Len(left.rows) |-> MatchRows(left.rows[i], right.rows)]))

\* left.merge(right, on='BOL', how='inner', suffixes=('_alert', '_bol')):
\* KeyError without the key column
Merge(left, right) ==
    IF "BOL" \notin left.columns \/ "BOL" \notin right.columns
    THEN Raise("KeyError")
    ELSE Ok(JoinTables(Renamed(left, right.columns \ {"BOL"}, "_alert"),
                       Renamed(right, left.columns \ {"BOL"}, "_bol")))

\* the except clauses of load_data: what the caller sees for an exception
LoadDataExc(e) == IF IsFileNotFound(e) THEN "FileNotFoundError" ELSE "Exception"

LoadData_Cached(dl, afile, bfile) ==
    LET a == ReadExcel(afile) IN
    IF a.kind = "raise" THEN [dl |-> dl, exc |-> LoadDataExc(a.exc)]
    ELSE
    LET dl1 == IF dl.alert_df = None THEN [dl EXCEPT !.alert_df = a.val] ELSE dl
        b   == ReadExcel(bfile) IN
    IF b.kind = "raise" THEN [dl |-> dl1, exc |-> LoadDataExc(b.exc)]
    ELSE
    LET dl2 == [dl1 EXCEPT !.bol_df = b.val]
        c   == Merge(dl2.alert_df, dl2.bol_df) IN
    IF c.kind = "raise" THEN [dl |-> dl2, exc |-> LoadDataExc(c.exc)]
    ELSE [dl |-> [dl2 EXCEPT !.combined_df = c.val], exc |-> "none"]

\* DataLoader.load_data on the loader fields dl = [alert_df, bol_df, combined_df]:
\* the fields afterwards and the exception raised ("none" when it returns)
LoadData(dl, afile, bfile) ==
    LET a == ReadExcel(afile) IN
    IF a.kind = "raise" THEN [dl |-> dl, exc |-> LoadDataExc(a.exc)]
    ELSE
    LET dl1 == [dl EXCEPT !.alert_df = a.val]
        b   == ReadExcel(bfile) IN
    IF b.kind = "raise" THEN [dl |-> dl1, exc |-> LoadDataExc(b.exc)]
    ELSE
    LET dl2 == [dl1 EXCEPT !.bol_df = b.val]
        c   == Merge(dl2.alert_df, dl2.bol_df) IN
    IF c.kind = "raise" THEN [dl |-> dl2, exc |-> LoadDataExc(c.exc)]
    ELSE [dl |-> [dl2 EXCEPT !.combined_df = c.val], exc |-> "none"]

Loader == [alert_df |-> alert_df, bol_df |-> bol_df, combined_df |-> combined_df]

\* get_alert_data / get_bol_data / get_combined_data: load when the field is
\* None, then return the field
Getter(dl, field, afile, bfile) ==
    IF dl[field] = None
    THEN LET r == LoadData(dl, afile, bfile)
         IN  IF r.exc = "none" THEN [dl |-> r.dl, out |-> Ok(r.dl[field])]
             ELSE [dl |-> r.dl, out |-> Raise(r.exc)]
    ELSE [dl |-> dl, out |-> Ok(dl[field])]

(***************************************************************************)
(* ActionExecutor                                                          *)
(***************************************************************************)
\* df['BOL'].values: KeyError when the table has no such column
ColumnValues(df, col) ==
    IF col \in df.columns THEN Ok([i \in 1..Len(df.rows) |-> df.rows[i][col]])
    ELSE Raise("KeyError")

\* `bol in values`
InValues(b, values) == \E i \in 1..Len(values) : values[i] = b

\* df.loc[df['BOL'] == bol, col].values
LocValues(df, b, col) ==
    LET m == SelectSeq(df.rows, LAMBDA r : r.BOL = b)
    IN  [i \in 1..Len(m) |-> m[i][col]]

\* df.loc[df['BOL'] == bol, col] = v, in place
LocAssign(df, b, col, v) ==
    [df EXCEPT !.rows = [i \in 1..Len(df.rows) |->
        IF df.rows[i].BOL = b THEN [df.rows[i] EXCEPT ![col] = v] ELSE df.rows[i]]]

StopValue_No == "No"

\* the value stop_alert writes into Stop_Alert
StopValue == "Yes"

\* bool(numpy array of flags): the element when there is one, ValueError when
\* there are several (an empty array is falsy)
ArrayTruth(flags) ==
    IF Len(flags) = 0 THEN Ok(FALSE)
    ELSE IF Len(flags) = 1 THEN Ok(flags[1])
    ELSE Raise("ValueError")

\* bool(pd.notna(current_note) and current_note)
NoteTruth(cells) ==
    LET notna == ArrayTruth([i \in 1..Len(cells) |-> ~cells[i].isna])
    IN  IF notna.kind = "raise" THEN notna
        ELSE IF ~notna.val THEN Ok(FALSE)
        ELSE ArrayTruth([i \in 1..Len(cells) |-> cells[i].s # <<>>])

\* f"{current_note}; {rephrased_note}" if ... else rephrased_note, where
\* current_note is the array .values returned
NewNote(cells, rephrased) ==
    LET t == NoteTruth(cells)
    IN  IF t.kind = "raise" THEN t
        ELSE IF t.val THEN Ok(NumpyStr(cells) \o <<"; ">> \o rephrased)
        ELSE Ok(rephrased)

\* openai.ChatCompletion.create(...): a response with a list of choices, or
\* an error of the collaborator
ChatCompletion(llm) ==
    IF llm.ok THEN Ok([choices |-> << [message |-> [content |-> llm.text]] >>])
    ELSE Raise("APIError")

\* response.choices.message.content: choices is a list, which has no
\* attribute `message`
ChoicesMessageContent(response) == Raise("AttributeError")

\* rephrase_note_with_llm: any exception gives the original note back
RephraseNoteWithLlm(note, llm) ==
    LET response == ChatCompletion(llm)
        content  == IF response.kind = "raise" THEN response
                    ELSE ChoicesMessageContent(response.val)
    IN  IF content.kind = "raise" THEN note ELSE content.val

\* the fixed template generate_email_body_with_llm falls back to
EmailTemplate(alert_data) ==
    <<"Alert Details:", alert_data.Customer, alert_data.Alert_Type,
      ToString(alert_data.OTIF_Risk_Score), alert_data.Delivery_Status,
      ToString(alert_data.No_of_Hours_Delayed), "Action Required">>

\* generate_email_body_with_llm
GenerateEmailBodyWithLlm(alert_data, escalate, llm) ==
    LET response == ChatCompletion(llm)
        content  == IF response.kind = "raise" THEN response
                    ELSE ChoicesMessageContent(response.val)
    IN  IF content.kind = "raise" THEN EmailTemplate(alert_data) ELSE content.val

ExceptResult_Reraise(out, what, b) == out

\* the `except Exception as e` of an action: a failure result, never a raise
ExceptResult(out, what, b) ==
    IF out.kind = "raise"
    THEN Ok([success |-> FALSE, message |-> <<what, out.exc>>, bol |-> b])
    ELSE out

NotFound(b) == Ok([success |-> FALSE, message |-> <<"BOL ", b, " not found">>, bol |-> b])

\* an action's effect: the loader fields, the log and the clock afterwards,
\* and what the try block produced
Effect(dl, log, clk, out) == [dl |-> dl, log |-> log, clock |-> clk, out |-> out]

LogAppend_Front(log, action) == <<action>> \o log

LogAppend_Dedup(log, action) ==
    IF \E i \in 1..Len(log) : log[i].action = action.action /\ log[i].bol = action.bol
    THEN log ELSE Append(log, action)

\* self.action_log.append(action)
LogAppend(log, action) == Append(log, action)

\* the try block of stop_alert
StopAlertTry(dl, log, clk, b, reason, afile, bfile) ==
    LET g == Getter(dl, "alert_df", afile, bfile) IN
    IF g.out.kind = "raise" THEN Effect(g.dl, log, clk, g.out)
    ELSE
    LET df == g.out.val
        values == ColumnValues(df, "BOL") IN
    IF values.kind = "raise" THEN Effect(g.dl, log, clk, values)
    ELSE IF ~InValues(b, values.val) THEN Effect(g.dl, log, clk, NotFound(b))
    ELSE
    LET df1 == LocAssign(df, b, "Stop_Alert", StopValue)
        action == [timestamp |-> clk + 1, action |-> "stop_alert", bol |-> b,
                   reason |-> reason, success |-> TRUE]
    IN  Effect([g.dl EXCEPT !.alert_df = df1], LogAppend(log, action), clk + 1,
               Ok([success |-> TRUE,
                   message |-> <<"Alert for BOL ", b, " has been stopped">>,
                   bol |-> b, reason |-> reason]))

\* the try block of add_note
AddNoteTry(dl, log, clk, b, note, llm, afile, bfile) ==
    LET g == Getter(dl, "alert_df", afile, bfile) IN
    IF g.out.kind = "raise" THEN Effect(g.dl, log, clk, g.out)
    ELSE
    LET df == g.out.val
        values == ColumnValues(df, "BOL") IN
    IF values.kind = "raise" THEN Effect(g.dl, log, clk, values)
    ELSE IF ~InValues(b, values.val) THEN Effect(g.dl, log, clk, NotFound(b))
    ELSE
    LET rephrased_note == RephraseNoteWithLlm(note, llm)
        current_note == LocValues(df, b, "User_Notes")
        new_note == NewNote(current_note, rephrased_note) IN
    IF new_note.kind = "raise" THEN Effect(g.dl, log, clk, new_note)
    ELSE
    LET df1 == LocAssign(df, b, "User_Notes", Str(new_note.val))
        action == [timestamp |-> clk + 1, action |-> "add_note", bol |-> b,
                   original_note |-> note, rephrased_note |-> rephrased_note,
                   success |-> TRUE]
    IN  Effect([g.dl EXCEPT !.alert_df = df1], LogAppend(log, action), clk + 1,
               Ok([success |-> TRUE, message |-> <<"Note added to BOL ", b>>,
                   bol |-> b, original_note |-> note,
                   rephrased_note |-> rephrased_note]))

\* df[df['BOL'] == bol].iloc: the positional indexer over the matching rows
ILoc(df, b) == [kind |-> "iloc", rows |-> SelectSeq(df.rows, LAMBDA r : r.BOL = b)]

\* a subscript: an integer position or a column label
Position(i) == [isint |-> TRUE, i |-> i, name |-> ""]
Label(name) == [isint |-> FALSE, i |-> 0, name |-> name]

\* indexer[key] on an iloc indexer: positions only, a label is a TypeError
IndexerGetItem(indexer, key) ==
    IF key.isint
    THEN IF key.i < Len(indexer.rows) THEN Ok(indexer.rows[key.i + 1])
         ELSE Raise("IndexError")
    ELSE Raise("TypeError")

\* the fields send_email_alert reads through alert_row[...], in source order;
\* the first subscript that raises ends the try block
AlertFields == <<"Customer", "Facility", "Alert_Type", "OTIF_Risk_Score",
                 "Days_Left_for_Delivery", "Delivery_Status",
                 "No_of_Hours_Delayed", "User_Email_ID">>

ReadAlertRow(alert_row) ==
    LET got == [i \in 1..Len(AlertFields) |-> IndexerGetItem(alert_row, Label(AlertFields[i]))]
        bad == {i \in 1..Len(AlertFields) : got[i].kind = "raise"}
    IN  IF bad # {} THEN got[CHOOSE i \in bad : \A j \in bad : i <= j]
        ELSE Ok([i \in 1..Len(AlertFields) |-> got[i].val])

\* the subject line of the notification
Subject(escalate, type, b) ==
    (IF escalate THEN <<"[ESCALATED] ">> ELSE <<>>)
    \o <<"OTIF Alert: ", type, " - BOL ", b>>

\* the try block of send_email_alert
SendEmailAlertTry(dl, log, clk, b, escalate, llm, afile, bfile) ==
    LET g == Getter(dl, "combined_df", afile, bfile) IN
    IF g.out.kind = "raise" THEN Effect(g.dl, log, clk, g.out)
    ELSE
    LET df == g.out.val
        values == ColumnValues(df, "BOL") IN
    IF values.kind = "raise" THEN Effect(g.dl, log, clk, values)
    ELSE IF ~InValues(b, values.val) THEN Effect(g.dl, log, clk, NotFound(b))
    ELSE
    LET alert_row == ILoc(df, b)
        fields == ReadAlertRow(alert_row) IN
    IF fields.kind = "raise" THEN Effect(g.dl, log, clk, fields)
    ELSE
    LET f == fields.val
        alert_data == [Customer |-> f[1], Facility |-> f[2], Alert_Type |-> f[3],
                       OTIF_Risk_Score |-> f[4], Days_Left_for_Delivery |-> f[5],
                       Delivery_Status |-> f[6], No_of_Hours_Delayed |-> f[7],
                       BOL |-> b]
        email_body == GenerateEmailBodyWithLlm(alert_data, escalate, llm)
        email_details == [to |-> f[8], subject |-> Subject(escalate, f[3], b),
                          body |-> email_body, escalated |-> escalate]
        action == [timestamp |-> clk + 1, action |-> "send_email", bol |-> b,
                   email |-> email_details, escalated |-> escalate,
                   success |-> TRUE]
    IN  Effect(g.dl, LogAppend(log, action), clk + 1,
               Ok([success |-> TRUE, message |-> <<"Email sent for BOL ", b>>,
                   bol |-> b, email_to |-> email_details.to]))

(***************************************************************************)
(* ConversationMemory                                                      *)
(***************************************************************************)
\* s[k:] of Python: a negative k counts from the end; -0 is 0
PySliceFrom(s, k) ==
    LET start == IF k < 0 THEN (IF Len(s) + k < 0 THEN 0 ELSE Len(s) + k)
                 ELSE (IF k > Len(s) THEN Len(s) ELSE k)
    IN  SubSeq(s, start + 1, Len(s))

EmptyDict == [kind |-> "dict", keys |-> {}]

\* `metadata or {}`
MetadataOr(metadata) == IF metadata = None THEN EmptyDict ELSE metadata

\* the list after add_message: append, then trim when longer than the maximum
AddMessageList(msgs, max, message) ==
    LET appended == Append(msgs, message)
    IN  IF Len(appended) > max THEN PySliceFrom(appended, -max) ELSE appended

\* get_recent_messages(n)
RecentMessages(msgs, n) == PySliceFrom(msgs, -n)

ROLES    == {"user", "assistant"}
METADATA == {None, [kind |-> "dict", keys |-> {"intent"}]}
RECENT   == {0, 1, 2, 10}

(***************************************************************************)
(* Query Engine                                                            *)
(***************************************************************************)
Injections(n) == {f \in [1..n -> 1..n] : \A i, j \in 1..n : f[i] = f[j] => i = j}

\* the orders sort_values(col, ascending=False) may give: every arrangement
\* of the rows with col non-increasing (the default sort is not stable)
SortedDescending(rws, col) ==
    { [i \in 1..Len(rws) |-> rws[f[i]]] : f \in
        {g \in Injections(Len(rws)) :
            \A i \in 1..(Len(rws) - 1) : rws[g[i]][col] >= rws[g[i + 1]][col]} }

DelayedRows_AtLeast(df, min_hours) ==
    SelectSeq(df.rows, LAMBDA r : r.No_of_Hours_Delayed >= min_hours)

\* df[df['No_of_Hours_Delayed'] > min_hours]
DelayedRows(df, min_hours) ==
    SelectSeq(df.rows, LAMBDA r : r.No_of_Hours_Delayed > min_hours)

HOURS == {0, 12}

\* the spreadsheets with every column the Query Engine and the reports read
QueryAlertColumns == AlertColumns \cup {"Facility", "Days_Left_for_Delivery",
                                        "Alert_Start_Date", "Material_Name"}

\* one row of Alert.xlsx: the risk score in hundredths, the date as the text
\* of the cell, the material possibly missing
AlertRecord(b, cust, fac, type, risk, days, date, material) ==
    [BOL |-> b, Customer |-> cust, Facility |-> fac, Alert_Type |-> type,
     OTIF_Risk_Score |-> risk, Days_Left_for_Delivery |-> days,
     Alert_Start_Date |-> date, Material_Name |-> material,
     Stop_Alert |-> "No", User_Notes |-> NaN]

\* one row of BOL.xlsx, the carrier possibly missing
BolRecord(b, carrier, status, hours) ==
    [BOL |-> b, Carrier_Name |-> carrier, Delivery_Status |-> status,
     No_of_Hours_Delayed |-> hours, User_Email_ID |-> <<"ops@">>]

\* the same row in a sheet that also names the carrier
WithCarrier(row, carrier) == row @@ [Carrier_Name |-> carrier]

QueryAlertRows ==
    << AlertRecord("B1", "Acme", "Palatka", "Late", 90, 1, "2024-01-02",
                   Str(<<"S", "t", "e", "e", "l">>)),
       AlertRecord("B2", "Bolt", "Reno", "Short", 40, 7, "2024-01-01", NaN),
       AlertRecord("B4", "Acme", "Reno", "Late", 70, -1, "2024-01-03",
                   Str(<<"B", "o", "l", "t">>)) >>

\* the contents Alert.xlsx may have: with a Carrier_Name column of its own,
\* without one, and without rows
QueryAlertFiles ==
    { Sheet(QueryAlertColumns \cup {"Carrier_Name"},
            [i \in 1..3 |-> WithCarrier(QueryAlertRows[i], Str(<<"X">>))]),
      Sheet(QueryAlertColumns, QueryAlertRows),
      Sheet(QueryAlertColumns \cup {"Carrier_Name"}, <<>>) }

\* the contents BOL.xlsx may have: a row for every alert; the same with one
\* carrier missing; no row of any alert; no file
QueryBolFiles ==
    { Sheet(BolColumns, << BolRecord("B1", Str(<<"X">>), "Delayed", 20),
                           BolRecord("B2", Str(<<"Y">>), "On Time", 0),
                           BolRecord("B4", Str(<<"Y">>), "On Time", 12),
                           BolRecord("B1", Str(<<"X">>), "On Time", 0) >>),
      Sheet(BolColumns, << BolRecord("B1", Str(<<"X">>), "Delayed", 20),
                           BolRecord("B2", NaN, "On Time", 0),
                           BolRecord("B4", Str(<<"Y">>), "On Time", 12) >>),
      Sheet(BolColumns, << BolRecord("B3", Str(<<"Y">>), "On Time", 0) >>),
      Missing }

\* the characters of the names and patterns in use
Chars(s) ==
    CASE s = "Acme" -> <<"A", "c", "m", "e">>
      [] s = "Bolt" -> <<"B", "o", "l", "t">>
      [] s = "Palatka" -> <<"P", "a", "l", "a", "t", "k", "a">>
      [] s = "Reno" -> <<"R", "e", "n", "o">>
      [] s = "Late" -> <<"L", "a", "t", "e">>
      [] s = "Short" -> <<"S", "h", "o", "r", "t">>
      [] s = "AC" -> <<"A", "C">>
      [] s = "lat" -> <<"l", "a", "t">>
      [] s = "bolt" -> <<"b", "o", "l", "t">>
      [] s = "zz" -> <<"z", "z">>
      [] OTHER -> <<>>

\* a text cell of a column that is never missing
Text(s) == Str(Chars(s))

LowerChar(c) ==
    CASE c = "A" -> "a" [] c = "B" -> "b" [] c = "C" -> "c" [] c = "L" -> "l"
      [] c = "P" -> "p" [] c = "R" -> "r" [] c = "S" -> "s" [] OTHER -> c

LowerChars(s) == [i \in 1..Len(s) |-> LowerChar(s[i])]

\* Series.str.contains(pat, case=False, na=False) on one cell, for a pattern
\* of letters: a missing cell never matches
StrContains(cell, pat) ==
    /\ ~cell.isna
    /\ LET hay == LowerChars(cell.s)
           p   == LowerChars(Chars(pat))
       IN  \E i \in 0..(Len(hay) - Len(p)) : SubSeq(hay, i + 1, i + Len(p)) = p

\* datetime.strftime("%Y-%m-%d") of the days in use
Strftime(day) ==
    CASE day = 1 -> "2024-01-01"
      [] day = 2 -> "2024-01-02"
      [] day = 3 -> "2024-01-03"
      [] OTHER -> "2023-12-31"

\* the arrangements of rws in which every two neighbours are in order;
\* inorder[i, j] says whether rws[i] may stand right before rws[j]
Arrangements(rws, inorder) ==
    { [i \in 1..Len(rws) |-> rws[f[i]]] : f \in
        {g \in Injections(Len(rws)) :
            \A i \in 1..(Len(rws) - 1) : inorder[g[i], g[i + 1]]} }

\* sort_values(col): ascending
SortedAscending(rws, col) ==
    Arrangements(rws, [i \in 1..Len(rws), j \in 1..Len(rws) |-> rws[i][col] <= rws[j][col]])

\* df[col] for each col: KeyError when a column is not there
HasColumns(df, cols) == cols \subseteq df.columns

\* get_alerts_by_customer_facility(customer, facility, date) on the joined
\* view df, the clock reading the day now
AlertsByCustomerFacility(df, customer, facility, date, now) ==
    IF ~HasColumns(df, {"Customer", "Facility"}) THEN Raise("KeyError")
    ELSE
    LET result == SelectSeq(df.rows, LAMBDA r :
                      /\ StrContains(Text(r.Customer), customer)
                      /\ StrContains(Text(r.Facility), facility))
    IN  IF Lower(date) = "today"
        THEN IF ~HasColumns(df, {"Alert_Start_Date"}) THEN Raise("KeyError")
             ELSE Ok(SelectSeq(result, LAMBDA r : r.Alert_Start_Date = Strftime(now)))
        ELSE IF Lower(date) = "yesterday"
        THEN IF ~HasColumns(df, {"Alert_Start_Date"}) THEN Raise("KeyError")
             ELSE Ok(SelectSeq(result, LAMBDA r : r.Alert_Start_Date = Strftime(now - 1)))
        ELSE Ok(result)

\* df[df['OTIF_Risk_Score'] >= risk_threshold]
HighRiskRows(df, risk_threshold) ==
    SelectSeq(df.rows, LAMBDA r : r.OTIF_Risk_Score >= risk_threshold)

\* df[df['Alert_Type'].str.contains(alert_type, case=False, na=False)]
AlertsByType(df, alert_type) ==
    IF ~HasColumns(df, {"Alert_Type"}) THEN Raise("KeyError")
    ELSE Ok(SelectSeq(df.rows, LAMBDA r : StrContains(Text(r.Alert_Type), alert_type)))

\* df[df['Days_Left_for_Delivery'] <= max_days]
DaysLeftRows(df, max_days) ==
    SelectSeq(df.rows, LAMBDA r : r.Days_Left_for_Delivery <= max_days)

\* Series.value_counts().to_dict(): the count of every value present
ValueCounts(rws, col) ==
    [v \in {rws[i][col] : i \in 1..Len(rws)} |->
        Cardinality({i \in 1..Len(rws) : rws[i][col] = v})]

\* get_delivery_status_summary() on the BOL table
DeliveryStatusSummary(df) ==
    IF ~HasColumns(df, {"Delivery_Status"}) THEN Raise("KeyError")
    ELSE Ok(ValueCounts(df.rows, "Delivery_Status"))

RECURSIVE SumOf(_, _)
SumOf(rws, col) == IF rws = <<>> THEN 0 ELSE Head(rws)[col] + SumOf(Tail(rws), col)

\* round(1) of k / n * 100, in tenths: to the nearest, a tie to the even one
RoundedRate(k, n) ==
    LET q == (k * 1000) \div n
        r == (k * 1000) % n
    IN  IF 2 * r > n \/ (2 * r = n /\ q % 2 = 1) THEN q + 1 ELSE q

\* groupby(col): the rows of each key; a row whose key is missing is dropped
GroupKeys(rws, col) == {rws[i][col] : i \in 1..Len(rws)} \ {NaN}

\* one row of carrier_stats: the mean as sum over count
CarrierStats(rws, carrier) ==
    LET group == SelectSeq(rws, LAMBDA r : r.Carrier_Name_bol = carrier)
        on_time == Len(SelectSeq(group, LAMBDA r : r.Delivery_Status = "On Time"))
    IN  [Carrier |-> carrier,
         Total_Shipments |-> Len(group),
         Avg_Delay_Hours |-> [sum |-> SumOf(group, "No_of_Hours_Delayed"),
                              count |-> Len(group)],
         On_Time_Count |-> on_time,
         On_Time_Rate |-> RoundedRate(on_time, Len(group))]

\* a.Avg_Delay_Hours >= b.Avg_Delay_Hours
AvgNotLess(a, b) ==
    a.Avg_Delay_Hours.sum * b.Avg_Delay_Hours.count
        >= b.Avg_Delay_Hours.sum * a.Avg_Delay_Hours.count

\* get_carrier_performance() on the joined view: the orders it may return
CarrierPerformance(df) ==
    IF ~HasColumns(df, {"Carrier_Name_bol"}) THEN {Raise("KeyError")}
    ELSE LET keys == GroupKeys(df.rows, "Carrier_Name_bol")
             f == CHOOSE f \in [1..Cardinality(keys) -> keys] :
                      \A k \in keys : \E i \in 1..Cardinality(keys) : f[i] = k
             stats == [i \in 1..Cardinality(keys) |-> CarrierStats(df.rows, f[i])]
         IN  {Ok(s) : s \in Arrangements(stats,
                     [i \in 1..Len(stats), j \in 1..Len(stats) |->
                         AvgNotLess(stats[i], stats[j])])}

\* search_alerts(query_text) on the joined view
SearchRows(df, query_text) ==
    IF ~HasColumns(df, {"Customer", "Facility", "Alert_Type", "Material_Name"})
    THEN Raise("KeyError")
    ELSE Ok(SelectSeq(df.rows, LAMBDA r :
                \/ StrContains(Text(r.Customer), query_text)
                \/ StrContains(Text(r.Facility), query_text)
                \/ StrContains(Text(r.Alert_Type), query_text)
                \/ StrContains(r.Material_Name, query_text)))

Cached_InPlace(df, rws) == [df EXCEPT !.rows = rws]

\* df[mask] and sort_values() build a new frame: the cached one is as before
Cached(df, rws) == df

PATTERNS   == {"AC", "lat", "bolt", "zz"}
CUSTOMERS  == {"AC", "bolt"}
FACILITIES == {"lat", "Reno"}
DATES      == {"today", "Yesterday", "2024-01-02", "all"}
DAYS       == {2, 3}
THRESHOLDS == {70, 95}
MAXDAYS    == {1, 5}

(***************************************************************************)
(* Config and ReportGenerator                                              *)
(***************************************************************************)
\* the reports folder: absent, or present with the files written into it
NoFolder == [exists |-> FALSE, files |-> {}]
Folder(files) == [exists |-> TRUE, files |-> files]

\* Config.validate(): the exception raised ("none" when it returns) and the
\* reports folder afterwards
Validate(key, folder) ==
    IF ~key THEN [exc |-> "ValueError", folder |-> folder]
    ELSE [exc |-> "none",
          folder |-> IF folder.exists THEN folder ELSE Folder({})]

\* f"{part/total*100:.1f}": ZeroDivisionError for a total of 0, else the
\* percentage in tenths
Percentage(part, total) ==
    IF total = 0 THEN Raise("ZeroDivisionError") ELSE Ok(RoundedRate(part, total))

\* Series.value_counts().head(5): the five most frequent values, any five of
\* them when counts tie
TopCounts(counts) ==
    IF Cardinality(DOMAIN counts) <= 5 THEN {counts}
    ELSE { [v \in top |-> counts[v]] : top \in
             {t \in SUBSET DOMAIN counts :
                 /\ Cardinality(t) = 5
                 /\ \A v \in t, w \in (DOMAIN counts) \ t : counts[v] >= counts[w]} }

\* generate_daily_alert_summary() on the joined view df: the figures of the
\* report it returns, or the exception it raises
DailyAlertSummary(df) ==
    IF ~HasColumns(df, {"OTIF_Risk_Score", "No_of_Hours_Delayed", "Alert_Type",
                        "Delivery_Status", "Customer", "Facility"})
    THEN {Raise("KeyError")}
    ELSE
    LET total_alerts == Len(df.rows)
        high_risk == Len(SelectSeq(df.rows, LAMBDA r : r.OTIF_Risk_Score > 70))
        delayed == Len(SelectSeq(df.rows, LAMBDA r : r.No_of_Hours_Delayed > 0))
        high_risk_pct == Percentage(high_risk, total_alerts)
        delayed_pct == Percentage(delayed, total_alerts)
    IN  IF high_risk_pct.kind = "raise" THEN {high_risk_pct}
        ELSE IF delayed_pct.kind = "raise" THEN {delayed_pct}
        ELSE { Ok([total_alerts |-> total_alerts,
                   high_risk |-> high_risk, high_risk_pct |-> high_risk_pct.val,
                   delayed |-> delayed, delayed_pct |-> delayed_pct.val,
                   alert_type_counts |-> ValueCounts(df.rows, "Alert_Type"),
                   delivery_status |-> ValueCounts(df.rows, "Delivery_Status"),
                   top_customers |-> c, top_facilities |-> f]) :
                 c \in TopCounts(ValueCounts(df.rows, "Customer")),
                 f \in TopCounts(ValueCounts(df.rows, "Facility")) }

\* a filename argument
Named(name) == [kind |-> "name", name |-> name]

\* f"OTIF_Report_{timestamp}.txt" for the clock reading ts
Timestamped(ts) == [kind |-> "name", name |-> "OTIF_Report_" \o ToString(ts) \o ".txt"]

\* os.path.join(Config.REPORT_OUTPUT_FOLDER, filename)
PathJoin(filename) == <<"./reports", filename.name>>

\* open(filepath, 'w') and f.write(content): FileNotFoundError without the
\* folder, else the folder with the file written anew
WriteFile(folder, filename, content) ==
    IF ~folder.exists THEN Raise("FileNotFoundError")
    ELSE Ok(Folder({f \in folder.files : f.name # filename.name}
                     \cup {[name |-> filename.name, content |-> content]}))

CONTENTS  == {<<"summary">>, <<"detail">>}
FILENAMES == {None, Named("a.txt")}

(***************************************************************************)
(* The state machine                                                       *)
(***************************************************************************)
NoCall == [op |-> "none"]

InitLoader ==
    /\ alert_df = None
    /\ bol_df = None
    /\ combined_df = None

\* module import: data_loader = DataLoader(), action_executor = ActionExecutor(),
\* conversation_memory = ConversationMemory()
Init ==
    /\ alert_file \in AlertFiles
    /\ bol_file \in BolFiles
    /\ InitLoader
    /\ action_log = <<>>
    /\ clock = 0
    /\ max_messages = 100
    /\ messages = <<>>
    /\ added = <<>>
    /\ report_count = 0
    /\ report_folder = NoFolder
    /\ api_key = TRUE
    /\ initialized = FALSE
    /\ pc = "start"
    /\ chats = 0
    /\ last = NoCall

SetLoader(dl) ==
    /\ alert_df' = dl.alert_df
    /\ bol_df' = dl.bol_df
    /\ combined_df' = dl.combined_df

\* data_loader.load_data()
LoadDataCall ==
    /\ LET r == LoadData(Loader, alert_file, bol_file) IN
        /\ SetLoader(r.dl)
        /\ last' = [op |-> "load_data",
                    ret |-> IF r.exc = "none"
                            THEN Ok(<<r.dl.alert_df, r.dl.bol_df, r.dl.combined_df>>)
                            ELSE Raise(r.exc)]
    /\ UNCHANGED <<alert_file, bol_file, action_log, clock, memVars, reportVars, sessionVars>>

\* data_loader.refresh_data()
RefreshData ==
    /\ LET r == LoadData(Loader, alert_file, bol_file) IN
        /\ SetLoader(r.dl)
        /\ last' = [op |-> "refresh_data",
                    ret |-> IF r.exc = "none" THEN Ok(None) ELSE Raise(r.exc)]
    /\ UNCHANGED <<alert_file, bol_file, action_log, clock, memVars, reportVars, sessionVars>>

GetterCall(op, field) ==
    /\ LET g == Getter(Loader, field, alert_file, bol_file) IN
        /\ SetLoader(g.dl)
        /\ last' = [op |-> op, ret |-> g.out]
    /\ UNCHANGED <<alert_file, bol_file, action_log, clock, memVars, reportVars, sessionVars>>

GetAlertData == GetterCall("get_alert_data", "alert_df")
GetBolData == GetterCall("get_bol_data", "bol_df")
GetCombinedData == GetterCall("get_combined_data", "combined_df")

SetEffect(e) ==
    /\ SetLoader(e.dl)
    /\ action_log' = e.log
    /\ clock' = e.clock

\* action_executor.stop_alert(bol, reason)
StopAlert(b, reason) ==
    /\ clock < MaxClock
    /\ LET e == StopAlertTry(Loader, action_log, clock, b, reason, alert_file, bol_file) IN
        /\ SetEffect(e)
        /\ last' = [op |-> "stop_alert", bol |-> b, reason |-> reason,
                    ret |-> ExceptResult(e.out, "Error stopping alert: ", b)]
    /\ UNCHANGED <<alert_file, bol_file, memVars, reportVars, sessionVars>>

\* action_executor.add_note(bol, note)
AddNote(b, note, llm) ==
    /\ clock < MaxClock
    /\ LET e == AddNoteTry(Loader, action_log, clock, b, note, llm, alert_file, bol_file) IN
        /\ SetEffect(e)
        /\ last' = [op |-> "add_note", bol |-> b, note |-> note,
                    ret |-> ExceptResult(e.out, "Error adding note: ", b)]
    /\ UNCHANGED <<alert_file, bol_file, memVars, reportVars, sessionVars>>

\* action_executor.send_email_alert(bol, escalate)
SendEmailAlert(b, escalate, llm) ==
    /\ clock < MaxClock
    /\ LET e == SendEmailAlertTry(Loader, action_log, clock, b, escalate, llm,
                                  alert_file, bol_file) IN
        /\ SetEffect(e)
        /\ last' = [op |-> "send_email_alert", bol |-> b, escalate |-> escalate,
                    ret |-> ExceptResult(e.out, "Error sending email: ", b)]
    /\ UNCHANGED <<alert_file, bol_file, memVars, reportVars, sessionVars>>

\* action_executor.get_action_log()
GetActionLog ==
    /\ last' = [op |-> "get_action_log", ret |-> Ok(action_log)]
    /\ UNCHANGED <<dataVars, clock, memVars, reportVars, sessionVars>>

\* get_delayed_bols(min_hours): no try block, a failing lazy load propagates
GetDelayedBols(min_hours) ==
    /\ LET g == Getter(Loader, "combined_df", alert_file, bol_file) IN
        /\ SetLoader(g.dl)
        /\ IF g.out.kind = "raise"
           THEN last' = [op |-> "get_delayed_bols", min_hours |-> min_hours, ret |-> g.out]
           ELSE \E sorted \in SortedDescending(DelayedRows(g.out.val, min_hours),
                                               "No_of_Hours_Delayed") :
                  last' = [op |-> "get_delayed_bols", min_hours |-> min_hours,
                           ret |-> Ok(DataFrame(g.out.val.columns, sorted))]
    /\ UNCHANGED <<alert_file, bol_file, action_log, clock, memVars, reportVars, sessionVars>>

Next ==
    \/ LoadDataCall
    \/ RefreshData
    \/ GetAlertData
    \/ GetBolData
    \/ GetCombinedData
    \/ \E b \in BOLS, reason \in REASONS : StopAlert(b, reason)
    \/ \E b \in BOLS, note \in NOTES, llm \in LLM : AddNote(b, note, llm)
    \/ \E b \in BOLS, escalate \in BOOLEAN, llm \in LLM : SendEmailAlert(b, escalate, llm)
    \/ GetActionLog
    \/ \E min_hours \in HOURS : GetDelayedBols(min_hours)

Spec == Init /\ [][Next]_vars

(***************************************************************************)
(* The Dataset Store while the spreadsheets change on disk                 *)
(***************************************************************************)
\* the environment rewrites the spreadsheets
WriteFiles ==
    /\ alert_file' \in AlertFiles
    /\ bol_file' \in BolFiles
    /\ UNCHANGED <<alert_df, bol_df, combined_df, action_log, clock, memVars, last, reportVars, sessionVars>>

NextStore ==
    \/ WriteFiles
    \/ LoadDataCall
    \/ RefreshData
    \/ GetAlertData
    \/ GetBolData
    \/ GetCombinedData
    \/ StopAlert("B1", "resolved")
    \/ \E llm \in LLM : AddNote("B1", <<"n1">>, llm)

SpecStore == Init /\ [][NextStore]_vars

(***************************************************************************)
(* The conversation memory on its own                                      *)
(***************************************************************************)
\* ConversationMemory(max_messages)
InitMemory ==
    /\ alert_file = Missing
    /\ bol_file = Missing
    /\ InitLoader
    /\ action_log = <<>>
    /\ clock = 0
    /\ max_messages \in 0..MaxMax
    /\ messages = <<>>
    /\ added = <<>>
    /\ report_count = 0
    /\ report_folder = NoFolder
    /\ api_key = TRUE
    /\ initialized = FALSE
    /\ pc = "start"
    /\ chats = 0
    /\ last = NoCall

\* conversation_memory.add_message(role, content, metadata)
AddMessage(role, content, metadata) ==
    /\ clock < MaxAdds
    /\ LET message == [timestamp |-> clock + 1, role |-> role, content |-> content,
                       metadata |-> MetadataOr(metadata)] IN
        /\ messages' = AddMessageList(messages, max_messages, message)
        /\ added' = Append(added, message)
    /\ clock' = clock + 1
    /\ last' = [op |-> "add_message", ret |-> Ok(None)]
    /\ UNCHANGED <<dataVars, max_messages, reportVars, sessionVars>>

\* conversation_memory.get_recent_messages(n)
GetRecentMessages(n) ==
    /\ last' = [op |-> "get_recent_messages", n |-> n,
                ret |-> Ok(RecentMessages(messages, n))]
    /\ UNCHANGED <<dataVars, clock, memVars, reportVars, sessionVars>>

\* conversation_memory.get_all_messages()
GetAllMessages ==
    /\ last' = [op |-> "get_all_messages", ret |-> Ok(messages)]
    /\ UNCHANGED <<dataVars, clock, memVars, reportVars, sessionVars>>

\* conversation_memory.clear()
Clear ==
    /\ messages' = <<>>
    /\ added' = <<>>
    /\ last' = [op |-> "clear", ret |-> Ok(None)]
    /\ UNCHANGED <<dataVars, clock, max_messages, reportVars, sessionVars>>

NextMemory ==
    \/ \E role \in ROLES, metadata \in METADATA : AddMessage(role, <<"hi">>, metadata)
    \/ \E n \in RECENT : GetRecentMessages(n)
    \/ GetAllMessages
    \/ Clear

SpecMemory == InitMemory /\ [][NextMemory]_vars

(***************************************************************************)
(* The Query Engine over loaded tables                                     *)
(***************************************************************************)
InitQuery ==
    /\ alert_file \in QueryAlertFiles
    /\ bol_file \in QueryBolFiles
    /\ InitLoader
    /\ action_log = <<>>
    /\ clock = 0
    /\ max_messages = 100
    /\ messages = <<>>
    /\ added = <<>>
    /\ report_count = 0
    /\ report_folder = NoFolder
    /\ api_key = TRUE
    /\ initialized = FALSE
    /\ pc = "start"
    /\ chats = 0
    /\ last = NoCall

\* data_loader.get_combined_data() or get_bol_data() at the head of a query
\* function: it may load and may raise
QueryTable(field) == Getter(Loader, field, alert_file, bol_file)

\* a query function after its getter returned g: the exception of the getter,
\* or one of the results; selects says whether a result is a selection of the
\* table's rows
QueryCall(call, field, g, results, selects) ==
    /\ IF g.out.kind = "raise"
       THEN /\ SetLoader(g.dl)
            /\ last' = call @@ [ret |-> g.out]
       ELSE \E ret \in results :
               /\ SetLoader(IF selects /\ ret.kind = "ok"
                            THEN [g.dl EXCEPT ![field] = Cached(g.out.val, ret.val)]
                            ELSE g.dl)
               /\ last' = call @@ [ret |-> IF selects /\ ret.kind = "ok"
                                           THEN Ok(DataFrame(g.out.val.columns, ret.val))
                                           ELSE ret]
    /\ UNCHANGED <<alert_file, bol_file, action_log, clock, memVars, reportVars,
                   sessionVars>>

\* get_alerts_by_customer_facility(customer, facility, date), the day being now
GetAlertsByCustomerFacility(customer, facility, date, now) ==
    LET g == QueryTable("combined_df") IN
    QueryCall([op |-> "get_alerts_by_customer_facility", customer |-> customer,
               facility |-> facility, date |-> date, now |-> now],
              "combined_df", g,
              IF g.out.kind = "raise" THEN {}
              ELSE {AlertsByCustomerFacility(g.out.val, customer, facility, date, now)},
              TRUE)

\* get_high_risk_alerts(risk_threshold)
GetHighRiskAlerts(risk_threshold) ==
    LET g == QueryTable("combined_df") IN
    QueryCall([op |-> "get_high_risk_alerts", risk_threshold |-> risk_threshold],
              "combined_df", g,
              IF g.out.kind = "raise" THEN {}
              ELSE IF ~HasColumns(g.out.val, {"OTIF_Risk_Score"})
              THEN {Raise("KeyError")}
              ELSE {Ok(s) : s \in SortedDescending(
                        HighRiskRows(g.out.val, risk_threshold), "OTIF_Risk_Score")},
              TRUE)

\* get_alerts_by_type(alert_type)
GetAlertsByType(alert_type) ==
    LET g == QueryTable("combined_df") IN
    QueryCall([op |-> "get_alerts_by_type", alert_type |-> alert_type],
              "combined_df", g,
              IF g.out.kind = "raise" THEN {} ELSE {AlertsByType(g.out.val, alert_type)},
              TRUE)

\* get_alerts_by_days_left(max_days)
GetAlertsByDaysLeft(max_days) ==
    LET g == QueryTable("combined_df") IN
    QueryCall([op |-> "get_alerts_by_days_left", max_days |-> max_days],
              "combined_df", g,
              IF g.out.kind = "raise" THEN {}
              ELSE IF ~HasColumns(g.out.val, {"Days_Left_for_Delivery"})
              THEN {Raise("KeyError")}
              ELSE {Ok(s) : s \in SortedAscending(
                        DaysLeftRows(g.out.val, max_days), "Days_Left_for_Delivery")},
              TRUE)

\* get_delivery_status_summary()
GetDeliveryStatusSummary ==
    LET g == QueryTable("bol_df") IN
    QueryCall([op |-> "get_delivery_status_summary"], "bol_df", g,
              IF g.out.kind = "raise" THEN {} ELSE {DeliveryStatusSummary(g.out.val)},
              FALSE)

\* get_carrier_performance()
GetCarrierPerformance ==
    LET g == QueryTable("combined_df") IN
    QueryCall([op |-> "get_carrier_performance"], "combined_df", g,
              IF g.out.kind = "raise" THEN {} ELSE CarrierPerformance(g.out.val),
              FALSE)

\* search_alerts(query_text)
SearchAlerts(query_text) ==
    LET g == QueryTable("combined_df") IN
    QueryCall([op |-> "search_alerts", query_text |-> query_text],
              "combined_df", g,
              IF g.out.kind = "raise" THEN {} ELSE {SearchRows(g.out.val, query_text)},
              TRUE)

NextQuery ==
    \/ LoadDataCall
    \/ \E customer \in CUSTOMERS, facility \in FACILITIES, date \in DATES, now \in DAYS :
          GetAlertsByCustomerFacility(customer, facility, date, now)
    \/ \E min_hours \in HOURS : GetDelayedBols(min_hours)
    \/ \E risk_threshold \in THRESHOLDS : GetHighRiskAlerts(risk_threshold)
    \/ \E alert_type \in PATTERNS : GetAlertsByType(alert_type)
    \/ \E max_days \in MAXDAYS : GetAlertsByDaysLeft(max_days)
    \/ GetDeliveryStatusSummary
    \/ GetCarrierPerformance
    \/ \E query_text \in PATTERNS : SearchAlerts(query_text)
    \/ (action_log = <<>> /\ StopAlert("B1", "resolved"))
    \/ (messages = <<>> /\ AddMessage("user", <<"hi">>, None))

SpecQuery == InitQuery /\ [][NextQuery]_vars

(***************************************************************************)
(* The reports                                                             *)
(***************************************************************************)
InitReport ==
    /\ alert_file \in QueryAlertFiles
    /\ bol_file \in QueryBolFiles
    /\ InitLoader
    /\ action_log = <<>>
    /\ clock = 0
    /\ max_messages = 100
    /\ messages = <<>>
    /\ added = <<>>
    /\ report_count = 0
    /\ report_folder \in {NoFolder, Folder({})}
    /\ api_key \in BOOLEAN
    /\ initialized = FALSE
    /\ pc = "start"
    /\ chats = 0
    /\ last = NoCall

\* Config.validate()
ConfigValidate ==
    /\ LET v == Validate(api_key, report_folder) IN
        /\ report_folder' = v.folder
        /\ last' = [op |-> "validate",
                    ret |-> IF v.exc = "none" THEN Ok(None) ELSE Raise(v.exc)]
    /\ UNCHANGED <<dataVars, clock, memVars, report_count, sessionVars>>

\* the environment removes the reports folder
RemoveFolder ==
    /\ report_folder.exists
    /\ report_folder' = NoFolder
    /\ UNCHANGED <<dataVars, clock, memVars, report_count, sessionVars, last>>

\* report_generator.generate_daily_alert_summary(): no try block
GenerateDailyAlertSummary ==
    /\ LET g == Getter(Loader, "combined_df", alert_file, bol_file) IN
        /\ SetLoader(g.dl)
        /\ IF g.out.kind = "raise"
           THEN last' = [op |-> "generate_daily_alert_summary", ret |-> g.out]
           ELSE \E ret \in DailyAlertSummary(g.out.val) :
                  last' = [op |-> "generate_daily_alert_summary", ret |-> ret]
    /\ UNCHANGED <<alert_file, bol_file, action_log, clock, memVars, reportVars,
                   sessionVars>>

\* report_generator.save_report_to_file(report_content, filename)
SaveReportToFile(report_content, filename) ==
    /\ report_count < MaxReports
    /\ filename = None => clock < MaxClock
    /\ LET name == IF filename = None THEN Timestamped(clock + 1) ELSE filename
           w == WriteFile(report_folder, name, report_content) IN
        /\ clock' = IF filename = None THEN clock + 1 ELSE clock
        /\ IF w.kind = "raise"
           THEN /\ UNCHANGED reportVars
                /\ last' = [op |-> "save_report_to_file", content |-> report_content,
                            filename |-> filename, ret |-> w]
           ELSE /\ report_folder' = w.val
                /\ report_count' = report_count + 1
                /\ last' = [op |-> "save_report_to_file", content |-> report_content,
                            filename |-> filename, ret |-> Ok(PathJoin(name))]
    /\ UNCHANGED <<dataVars, memVars, sessionVars>>

NextReport ==
    \/ ConfigValidate
    \/ RemoveFolder
    \/ LoadDataCall
    \/ GenerateDailyAlertSummary
    \/ \E report_content \in CONTENTS, filename \in FILENAMES :
          SaveReportToFile(report_content, filename)

SpecReport == InitReport /\ [][NextReport]_vars

(***************************************************************************)
(* The interactive session (main.py)                                       *)
(***************************************************************************)
\* the lines typed at the prompt
INPUTS == {"", "  ", "help", " HELP ", "status", "refresh", "memory", "clear",
           "exit", "Quit", " bye", "show delayed", "Stop B9 "}

ExitWords == {"exit", "quit", "bye"}

IsWord_CaseSensitive(user_input, words) == user_input \in words

\* user_input.lower() in [...], user_input.lower() == '...'
IsWord(user_input, words) == Lower(user_input) \in words

\* what the agents do with one routed message, as far as this program's state
\* goes: the registered function they call, and how initiate_chat ends
CHATS == {[call |-> "none", end |-> "return"],
          [call |-> "none", end |-> "Exception"],
          [call |-> "none", end |-> "KeyboardInterrupt"],
          [call |-> "stop_alert B1", end |-> "return"],
          [call |-> "stop_alert B9", end |-> "return"]}

\* the registered function a chat calls
ChatCall(chat, dl, log, clk, afile, bfile) ==
    CASE chat.call = "stop_alert B1" ->
            StopAlertTry(dl, log, clk, "B1", "resolved", afile, bfile)
      [] chat.call = "stop_alert B9" ->
            StopAlertTry(dl, log, clk, "B9", "resolved", afile, bfile)
      [] OTHER -> Effect(dl, log, clk, Ok(None))

\* OTIFAlertSystem(); system.start_conversation()
InitSession ==
    /\ alert_file \in AlertFiles
    /\ bol_file \in BolFiles
    /\ InitLoader
    /\ action_log = <<>>
    /\ clock = 0
    /\ max_messages = 100
    /\ messages = <<>>
    /\ added = <<>>
    /\ report_count = 0
    /\ report_folder \in {NoFolder, Folder({})}
    /\ api_key \in BOOLEAN
    /\ initialized = FALSE
    /\ pc = "start"
    /\ chats = 0
    /\ last = NoCall

\* initialize(): validate the configuration, load the data, create the agents;
\* any exception is caught and False returned
Initialize(key, folder, dl, afile, bfile, agents) ==
    LET v == Validate(key, folder) IN
    IF v.exc # "none" THEN [folder |-> v.folder, dl |-> dl, ok |-> FALSE]
    ELSE LET r == LoadData(dl, afile, bfile)
         IN  [folder |-> v.folder, dl |-> r.dl, ok |-> r.exc = "none" /\ agents]

\* start_conversation() up to the loop: return when initialize() fails
StartConversation(agents) ==
    /\ pc = "start"
    /\ LET i == IF initialized
                THEN [folder |-> report_folder, dl |-> Loader, ok |-> TRUE]
                ELSE Initialize(api_key, report_folder, Loader, alert_file,
                                bol_file, agents) IN
        /\ report_folder' = i.folder
        /\ SetLoader(i.dl)
        /\ initialized' = i.ok
        /\ pc' = IF i.ok THEN "loop" ELSE "done"
        /\ last' = [op |-> "start_conversation", ret |-> Ok(i.ok)]
    /\ UNCHANGED <<alert_file, bol_file, action_log, clock, memVars,
                   report_count, api_key, chats>>

\* print_status(): both getters, then the summary
PrintStatus(dl, afile, bfile) ==
    LET a == Getter(dl, "alert_df", afile, bfile) IN
    IF a.out.kind = "raise" THEN a
    ELSE Getter(a.dl, "bol_df", afile, bfile)

\* the exception a call ended with, "none" when it returned
ExcOf(out) == IF out.kind = "raise" THEN out.exc ELSE "none"

\* the classes that derive from BaseException but not from Exception
BaseOnly == {"KeyboardInterrupt", "SystemExit", "GeneratorExit"}

NextPass_Propagate(exc) ==
    IF exc = "none" THEN "loop" ELSE "done"

\* where the loop's try statement goes when its body ended with exc: continue
\* or the end of the body, except KeyboardInterrupt: continue, except
\* Exception: continue; anything else leaves start_conversation
NextPass(exc) ==
    IF exc = "none" THEN "loop"
    ELSE IF exc = "KeyboardInterrupt" THEN "loop"
    ELSE IF exc \notin BaseOnly THEN "loop"
    ELSE "done"

\* one pass of the loop whose input() returns the line text
Input(text, chat) ==
    /\ pc = "loop"
    /\ LET user_input == Strip(text) IN
       IF user_input = ""
       THEN /\ last' = [op |-> "input", text |-> text, handled |-> "empty"]
            /\ UNCHANGED <<dataVars, clock, memVars, reportVars, sessionVars>>
       ELSE IF IsWord(user_input, ExitWords)
       THEN /\ pc' = "done"
            /\ last' = [op |-> "input", text |-> text, handled |-> "exit"]
            /\ UNCHANGED <<dataVars, clock, memVars, reportVars, api_key,
                           initialized, chats>>
       ELSE IF IsWord(user_input, {"help"})
       THEN /\ last' = [op |-> "input", text |-> text, handled |-> "help"]
            /\ UNCHANGED <<dataVars, clock, memVars, reportVars, sessionVars>>
       ELSE IF IsWord(user_input, {"status"})
       THEN /\ LET s == PrintStatus(Loader, alert_file, bol_file) IN
                /\ SetLoader(s.dl)
                /\ pc' = NextPass(ExcOf(s.out))
                /\ last' = [op |-> "input", text |-> text, handled |-> "status",
                            exc |-> ExcOf(s.out)]
            /\ UNCHANGED <<alert_file, bol_file, action_log, clock, memVars,
                           reportVars, api_key, initialized, chats>>
       ELSE IF IsWord(user_input, {"refresh"})
       THEN /\ LET r == LoadData(Loader, alert_file, bol_file) IN
                /\ SetLoader(r.dl)
                /\ pc' = NextPass(r.exc)
                /\ last' = [op |-> "input", text |-> text, handled |-> "refresh",
                            exc |-> r.exc]
            /\ UNCHANGED <<alert_file, bol_file, action_log, clock, memVars,
                           reportVars, api_key, initialized, chats>>
       ELSE IF IsWord(user_input, {"memory"})
       THEN /\ last' = [op |-> "input", text |-> text, handled |-> "memory"]
            /\ UNCHANGED <<dataVars, clock, memVars, reportVars, sessionVars>>
       ELSE IF IsWord(user_input, {"clear"})
       THEN /\ messages' = <<>>
            /\ added' = <<>>
            /\ last' = [op |-> "input", text |-> text, handled |-> "clear"]
            /\ UNCHANGED <<dataVars, clock, max_messages, reportVars, sessionVars>>
       ELSE /\ chats < MaxTurns
            /\ LET message == [timestamp |-> clock + 1, role |-> "user",
                               content |-> user_input, metadata |-> MetadataOr(None)]
                   e == ChatCall(chat, Loader, action_log, clock + 1,
                                 alert_file, bol_file) IN
                /\ messages' = AddMessageList(messages, max_messages, message)
                /\ added' = Append(added, message)
                /\ chats' = chats + 1
                /\ SetEffect(e)
                /\ pc' = NextPass(IF chat.end = "return" THEN "none" ELSE chat.end)
                /\ last' = [op |-> "input", text |-> text, handled |-> "routed",
                            chat |-> chat]
            /\ UNCHANGED <<alert_file, bol_file, max_messages, reportVars,
                           api_key, initialized>>

\* Ctrl-C at the prompt: input() raises KeyboardInterrupt, the loop goes on
Interrupt ==
    /\ pc = "loop"
    /\ pc' = NextPass("KeyboardInterrupt")
    /\ last' = [op |-> "input", handled |-> "KeyboardInterrupt"]
    /\ UNCHANGED <<dataVars, clock, memVars, reportVars, api_key, initialized, chats>>

\* the environment removes the spreadsheets while the session runs
DeleteFiles ==
    /\ pc = "loop"
    /\ alert_file' = Missing
    /\ bol_file' = Missing
    /\ UNCHANGED <<alert_df, bol_df, combined_df, action_log, clock, memVars,
                   last, reportVars, sessionVars>>

NextSession ==
    \/ \E agents \in BOOLEAN : StartConversation(agents)
    \/ \E text \in INPUTS, chat \in CHATS : Input(text, chat)
    \/ Interrupt
    \/ DeleteFiles

SpecSession == InitSession /\ [][NextSession]_vars

(***************************************************************************)
(* Properties                                                              *)
(***************************************************************************)
\* the rows of a cached table with a given BOL (none when the table has no
\* BOL column)
RowsOf(df, b) ==
    IF df = None THEN <<>>
    ELSE IF "BOL" \notin df.columns THEN <<>>
    ELSE SelectSeq(df.rows, LAMBDA r : r.BOL = b)

Present(df, b) == RowsOf(df, b) # <<>>

Returned(op) == last.op = op /\ last.ret.kind = "ok"

\* C1: stop_alert(b, r) on a BOL present in the alert table returns
\* success=true, leaves every alert row of b with Stop_Alert = "Yes" and
\* appends exactly one entry (action "stop_alert", bol b, reason r,
\* success true) to the action log; on a BOL absent from the alert table it
\* returns success=false and leaves the log and the alert table as they were.
\* A call that returns success=true always has done the former, one that
\* returns success=false has appended nothing.
C1_StopAlert ==
    [][\A b \in BOLS, r \in REASONS :
        StopAlert(b, r) =>
            LET res == last'.ret.val
                n   == Len(action_log) IN
            /\ (alert_df # None /\ Present(alert_df, b) => res.success)
            /\ (alert_df # None /\ ~Present(alert_df, b) =>
                    ~res.success /\ alert_df' = alert_df)
            /\ (res.success =>
                    /\ Present(alert_df', b)
                    /\ \A i \in 1..Len(alert_df'.rows) :
                          alert_df'.rows[i].BOL = b =>
                              alert_df'.rows[i].Stop_Alert = "Yes"
                    /\ Len(action_log') = n + 1
                    /\ SubSeq(action_log', 1, n) = action_log
                    /\ action_log'[n + 1].action = "stop_alert"
                    /\ action_log'[n + 1].bol = b
                    /\ action_log'[n + 1].reason = r
                    /\ action_log'[n + 1].success = TRUE)
            /\ (~res.success => action_log' = action_log)
      ]_vars

\* C1 witness: a stop_alert that succeeded on a table with two rows of the
\* BOL, both now stopped, and logged
C1_Witness ==
    /\ Returned("stop_alert")
    /\ last.ret.val.success
    /\ Len(RowsOf(alert_df, last.bol)) = 2
    /\ \A i \in 1..Len(alert_df.rows) :
          alert_df.rows[i].BOL = last.bol => alert_df.rows[i].Stop_Alert = "Yes"
    /\ action_log # <<>>
    /\ action_log[Len(action_log)].bol = last.bol

\* C2: in every reachable state, each row of the joined view shows the
\* Stop_Alert and User_Notes that the alert table shows for that BOL.
C2_ViewAgrees ==
    (alert_df # None /\ combined_df # None) =>
        \A i \in 1..Len(combined_df.rows) :
            \E j \in 1..Len(alert_df.rows) :
                /\ "BOL" \in alert_df.columns
                /\ alert_df.rows[j].BOL = combined_df.rows[i].BOL
                /\ alert_df.rows[j].Stop_Alert = combined_df.rows[i].Stop_Alert
                /\ alert_df.rows[j].User_Notes = combined_df.rows[i].User_Notes

\* C3: a successful add_note(b, n) sets an empty or missing User_Notes of b
\* to the rewritten text r, and a second successful add_note on the note r1
\* the first call left gives r1, then "; ", then r2.
C3_NotesAppended ==
    [][\A b \in BOLS, note \in NOTES, llm \in LLM :
        (AddNote(b, note, llm) /\ alert_df # None /\ last'.ret.val.success) =>
            LET r2 == last'.ret.val.rephrased_note IN
            \A i \in 1..Len(alert_df.rows) :
                alert_df.rows[i].BOL = b =>
                    LET old == alert_df.rows[i].User_Notes
                        new == alert_df'.rows[i].User_Notes IN
                    /\ (old.isna \/ old.s = <<>>) => new = Str(r2)
                    /\ ( /\ last.op = "add_note"
                         /\ last.bol = b
                         /\ last.ret.val.success
                         /\ old = Str(last.ret.val.rephrased_note) )
                       => new = Str(old.s \o <<"; ">> \o r2)
      ]_vars

IsPrefix(s, t) == Len(s) <= Len(t) /\ SubSeq(t, 1, Len(s)) = s

StartsWith(s, t) == IsPrefix(t, s)

\* C4: send_email_alert(b, escalate) on a BOL present in the joined view
\* returns success=true and appends exactly one entry with action
\* "send_email", bol b, escalated = escalate and an email payload whose
\* subject starts with "[ESCALATED] " exactly when escalate is true.
C4_EmailSent ==
    [][\A b \in BOLS, escalate \in BOOLEAN, llm \in LLM :
        (SendEmailAlert(b, escalate, llm) /\ Present(combined_df, b)) =>
            LET n == Len(action_log) IN
            /\ last'.ret.kind = "ok"
            /\ last'.ret.val.success
            /\ Len(action_log') = n + 1
            /\ SubSeq(action_log', 1, n) = action_log
            /\ action_log'[n + 1].action = "send_email"
            /\ action_log'[n + 1].bol = b
            /\ action_log'[n + 1].escalated = escalate
            /\ {"to", "subject", "body"} \subseteq DOMAIN action_log'[n + 1].email
            /\ StartsWith(action_log'[n + 1].email.subject, <<"[ESCALATED] ">>) <=> escalate
      ]_vars

\* C5: the action log is append-only: every step leaves the old log as a
\* prefix of the new one (refresh_data included), the entries stand in the
\* order their timestamps were taken, and get_action_log returns the whole
\* log.
C5_AppendOnly ==
    /\ [](\A i \in 1..(Len(action_log) - 1) :
              action_log[i].timestamp < action_log[i + 1].timestamp)
    /\ [][/\ IsPrefix(action_log, action_log')
          /\ GetActionLog => last'.ret = Ok(action_log)
         ]_vars

\* C5 witness: get_action_log returned two entries after a refresh had
\* reset the alert table the first of them had changed
C5_Witness ==
    /\ Returned("get_action_log")
    /\ Len(last.ret.val) = 2
    /\ last.ret.val = action_log
    /\ action_log[1].action = "stop_alert"
    /\ alert_df # None
    /\ \A i \in 1..Len(alert_df.rows) : alert_df.rows[i].Stop_Alert = "No"

ActionOps == {"stop_alert", "add_note", "send_email_alert"}

\* C6: a call of stop_alert, add_note or send_email_alert never raises: the
\* caller gets a result with a success flag, and a failed call's result has
\* success=false, a message and the bol it was called with.
C6_NeverRaises ==
    last.op \in ActionOps =>
        /\ last.ret.kind = "ok"
        /\ "success" \in DOMAIN last.ret.val
        /\ last.ret.val.success \in BOOLEAN
        /\ ~last.ret.val.success =>
              /\ {"message", "bol"} \subseteq DOMAIN last.ret.val
              /\ last.ret.val.message # <<>>
              /\ last.ret.val.bol = last.bol

\* C6 witness: add_note on a BOL with two alert rows, where the truth value
\* of the notes array is a ValueError, returned a failure result
C6_Witness ==
    /\ Returned("add_note")
    /\ ~last.ret.val.success
    /\ last.ret.val.message = <<"Error adding note: ", "ValueError">>
    /\ Len(RowsOf(alert_df, last.bol)) = 2

\* C7: a stop_alert(b, _) right after a successful stop_alert(b, _) succeeds,
\* leaves the alert table as the first call left it and appends one more
\* stop_alert entry for b, so the log has grown by two.
C7_StopTwice ==
    [][\A b \in BOLS, r \in REASONS :
        ( /\ StopAlert(b, r)
          /\ last.op = "stop_alert"
          /\ last.bol = b
          /\ last.ret.val.success ) =>
            LET n == Len(action_log) IN
            /\ last'.ret.val.success
            /\ alert_df' = alert_df
            /\ Len(action_log') = n + 1
            /\ n >= 1
            /\ \A i \in {n, n + 1} :
                  action_log'[i].action = "stop_alert" /\ action_log'[i].bol = b
      ]_vars

\* C7 witness: two successful stop_alert calls in a row on the same BOL
C7_Witness ==
    /\ Returned("stop_alert")
    /\ last.ret.val.success
    /\ Len(action_log) = 2
    /\ \A i \in 1..2 : action_log[i].action = "stop_alert" /\ action_log[i].bol = last.bol

\* the table a spreadsheet holds
FileTable(file) == [kind |-> "df", columns |-> file.columns, rows |-> file.rows]

\* C8: a refresh_data that returns leaves the alert and BOL tables equal to
\* what the two files hold and every row of the joined view put together
\* from a row of each file, so that no earlier Stop_Alert or User_Notes
\* change is left; a getter called next returns these tables.
C8_RefreshReplaces ==
    [][/\ (RefreshData /\ last'.ret.kind = "ok") =>
            /\ alert_df' = FileTable(alert_file)
            /\ bol_df' = FileTable(bol_file)
            /\ combined_df' # None
            /\ \A i \in 1..Len(combined_df'.rows) :
                  \E j \in 1..Len(alert_file.rows), k \in 1..Len(bol_file.rows) :
                      combined_df'.rows[i] = alert_file.rows[j] @@ bol_file.rows[k]
       /\ (Returned("refresh_data") /\ GetAlertData) => last'.ret = Ok(alert_df)
       /\ (Returned("refresh_data") /\ GetBolData) => last'.ret = Ok(bol_df)
       /\ (Returned("refresh_data") /\ GetCombinedData) => last'.ret = Ok(combined_df)
      ]_vars

\* C8 witness: refresh_data returned after a stop_alert and an add_note had
\* been logged, and the alert table is the file's again
C8_Witness ==
    /\ Returned("refresh_data")
    /\ \E i, j \in 1..Len(action_log) :
          action_log[i].action = "stop_alert" /\ action_log[j].action = "add_note"
    /\ alert_df = FileTable(alert_file)
    /\ combined_df.rows # <<>>

Min(a, b) == IF a <= b THEN a ELSE b

JustLoaded == Returned("load_data") \/ Returned("refresh_data")

\* the BOL values of a table
BolsOf(df) == {df.rows[i].BOL : i \in 1..Len(df.rows)}

UniqueBols(df) == Cardinality(BolsOf(df)) = Len(df.rows)

\* every joined row has its BOL in both tables, and a BOL of only one table
\* has no joined row
JoinMembership ==
    /\ \A i \in 1..Len(combined_df.rows) :
          /\ combined_df.rows[i].BOL \in BolsOf(alert_df)
          /\ combined_df.rows[i].BOL \in BolsOf(bol_df)
    /\ \A b \in (BolsOf(alert_df) \cup BolsOf(bol_df))
                    \ (BolsOf(alert_df) \cap BolsOf(bol_df)) :
          ~Present(combined_df, b)

\* C9 as stated: after a successful load the joined view has only BOLs of
\* both tables, no row for a BOL of one table only, and at most
\* min(alert rows, BOL rows) rows.
C9_JoinOriginal ==
    JustLoaded =>
        /\ JoinMembership
        /\ Len(combined_df.rows) <= Min(Len(alert_df.rows), Len(bol_df.rows))

\* C9 amended: after a successful load the joined view has only BOLs of both
\* tables and no row for a BOL of one table only; it has at most
\* min(alert rows, BOL rows) rows when no BOL is repeated within the alert
\* table or within the BOL table.
C9_Join ==
    JustLoaded =>
        /\ JoinMembership
        /\ (UniqueBols(alert_df) /\ UniqueBols(bol_df)) =>
              Len(combined_df.rows) <= Min(Len(alert_df.rows), Len(bol_df.rows))

\* C9 witness: a load of two alert rows and two BOL rows sharing one BOL
\* gave a joined view of one row
C9_Witness ==
    /\ JustLoaded
    /\ UniqueBols(alert_df) /\ UniqueBols(bol_df)
    /\ Len(alert_df.rows) = 2 /\ Len(bol_df.rows) = 2
    /\ Len(combined_df.rows) = 1
    /\ BolsOf(alert_df) # BolsOf(bol_df)

\* the last n elements of a sequence
LastN(s, n) == SubSeq(s, Len(s) - n + 1, Len(s))

\* C10: the memory holds at most max_messages messages, and they are the
\* most recently added min(k, max_messages) ones in the order they were
\* added, k being the number of adds since creation or the last clear;
\* get_recent_messages(10) with a maximum of 3 returns just these.
C10_Window ==
    /\ Len(messages) <= max_messages
    /\ messages = LastN(added, Min(Len(added), max_messages))
    /\ (Returned("get_recent_messages") /\ last.n = 10 /\ max_messages = 3) =>
          last.ret.val = LastN(added, Min(Len(added), 3))

\* C11: get_recent_messages(n), n >= 0, returns the last min(n, length)
\* messages of the log in insertion order and leaves the log as it was.
C11_Recent ==
    [][\A n \in RECENT :
        GetRecentMessages(n) =>
            /\ last'.ret = Ok(LastN(messages, Min(n, Len(messages))))
            /\ messages' = messages
      ]_vars

\* the step records a pass of the loop on this line (and this chat, if routed)
IsInput(text, chat) ==
    /\ pc = "loop"
    /\ last'.op = "input"
    /\ "text" \in DOMAIN last'
    /\ last'.text = text
    /\ "chat" \in DOMAIN last' => last'.chat = chat

\* the lines that are not a session command and not empty
RoutedInputs == {"show delayed", "Stop B9 "}

\* C12: in the interactive session a routed user input adds one "user" message
\* to the memory and the assistant's reply to it adds one "assistant" message.
C12_BothRoles ==
    [][\A text \in RoutedInputs, chat \in CHATS :
        (IsInput(text, chat) /\ Input(text, chat) /\ chat.end = "return") =>
            /\ Len(added') = Len(added) + 2
            /\ added'[Len(added) + 1].role = "user"
            /\ added'[Len(added) + 2].role = "assistant"
      ]_vars

\* the lines that are a session command once trimmed and lower-cased
CommandInputs == {"help", " HELP ", "status", "refresh", "memory", "clear",
                  "exit", "Quit", " bye"}

EmptyInputs == {"", "  "}

\* C15: a session command (any case, trimmed) is handled locally: the
\* orchestrator is not invoked and nothing is added to the memory; an empty line
\* does neither; every other line is added as one user message and routed once.
C15_Routing ==
    [][\A text \in INPUTS, chat \in CHATS :
        (IsInput(text, chat) /\ Input(text, chat)) =>
            IF text \in CommandInputs
            THEN /\ chats' = chats
                 /\ messages' \in {messages, <<>>}
                 /\ added' \in {added, <<>>}
            ELSE IF text \in EmptyInputs
            THEN /\ chats' = chats
                 /\ messages' = messages
                 /\ added' = added
            ELSE /\ chats' = chats + 1
                 /\ Len(added') = Len(added) + 1
                 /\ SubSeq(added', 1, Len(added)) = added
                 /\ added'[Len(added')].role = "user"
                 /\ added'[Len(added')].content = Strip(text)
                 /\ messages' = added'
      ]_vars

\* a command typed in capitals between spaces was handled after a routed line
C15_Witness ==
    /\ last.op = "input"
    /\ "text" \in DOMAIN last
    /\ last.text = " HELP "
    /\ chats = 1
    /\ Len(messages) = 1

\* C14: when the rewrite collaborator fails, add_note(b, n) on a present BOL
\* still succeeds, the rewritten note it reports and logs is n itself, and the
\* log entry records n as the original note.
C14_FallbackNote ==
    [][\A b \in BOLS, note \in NOTES, llm \in LLM :
        (AddNote(b, note, llm) /\ ~llm.ok /\ alert_df # None /\ Present(alert_df, b)) =>
            /\ last'.ret.kind = "ok"
            /\ last'.ret.val.success
            /\ last'.ret.val.rephrased_note = note
            /\ Len(action_log') = Len(action_log) + 1
            /\ action_log'[Len(action_log')].original_note = note
            /\ action_log'[Len(action_log')].rephrased_note = note
      ]_vars

Loaded == alert_df # None /\ bol_df # None /\ combined_df # None

\* the step is a call of one of the eight query functions
QueryStep ==
    \/ /\ last'.op = "get_alerts_by_customer_facility"
       /\ \E customer \in CUSTOMERS, facility \in FACILITIES, date \in DATES, now \in DAYS :
            GetAlertsByCustomerFacility(customer, facility, date, now)
    \/ /\ last'.op = "get_delayed_bols"
       /\ \E min_hours \in HOURS : GetDelayedBols(min_hours)
    \/ /\ last'.op = "get_high_risk_alerts"
       /\ \E risk_threshold \in THRESHOLDS : GetHighRiskAlerts(risk_threshold)
    \/ /\ last'.op = "get_alerts_by_type"
       /\ \E alert_type \in PATTERNS : GetAlertsByType(alert_type)
    \/ /\ last'.op = "get_alerts_by_days_left"
       /\ \E max_days \in MAXDAYS : GetAlertsByDaysLeft(max_days)
    \/ /\ last'.op = "get_delivery_status_summary"
       /\ GetDeliveryStatusSummary
    \/ /\ last'.op = "get_carrier_performance"
       /\ GetCarrierPerformance
    \/ /\ last'.op = "search_alerts"
       /\ \E query_text \in PATTERNS : SearchAlerts(query_text)

\* C16: once the three tables are loaded, no query function changes the
\* contents or row order of the cached alert, BOL or joined table, the action
\* log or the conversation memory.
C16_QueriesPure ==
    [][(Loaded /\ QueryStep) =>
            /\ alert_df' = alert_df
            /\ bol_df' = bol_df
            /\ combined_df' = combined_df
            /\ action_log' = action_log
            /\ messages' = messages
      ]_vars

\* a query returned the joined rows in another order than the cached one, with
\* an action logged and a message remembered
C16_Witness ==
    /\ Loaded
    /\ Returned("get_alerts_by_days_left")
    /\ Len(last.ret.val.rows) > 1
    /\ last.ret.val.rows[1].BOL = "B4"
    /\ combined_df.rows[1].BOL = "B1"
    /\ action_log # <<>>
    /\ messages # <<>>

\* C17: get_alerts_by_customer_facility with an explicit ISO date returns only
\* rows whose Alert_Start_Date is that calendar day.
C17_IsoDate ==
    [][\A customer \in CUSTOMERS, facility \in FACILITIES, now \in DAYS :
        ( /\ last'.op = "get_alerts_by_customer_facility"
          /\ GetAlertsByCustomerFacility(customer, facility, "2024-01-02", now)
          /\ last'.ret.kind = "ok" ) =>
            \A i \in 1..Len(last'.ret.val.rows) :
                last'.ret.val.rows[i].Alert_Start_Date = "2024-01-02"
      ]_vars

\* how often the row occurs in the rows
Count(rws, r) == Cardinality({i \in 1..Len(rws) : rws[i] = r})

RowSet(rws) == {rws[i] : i \in 1..Len(rws)}

\* C18: get_delayed_bols(h) returns exactly the joined rows delayed by more
\* than h hours, in non-increasing order of delay; so the rows of
\* get_delayed_bols(k), k > 0, are among those of get_delayed_bols(0).
C18_Delayed ==
    [][\A h \in HOURS :
        ( /\ last'.op = "get_delayed_bols"
          /\ GetDelayedBols(h)
          /\ last'.ret.kind = "ok" ) =>
            LET rws == last'.ret.val.rows
                view == combined_df'.rows IN
            /\ \A r \in RowSet(view) \cup RowSet(rws) :
                  Count(rws, r) = IF r.No_of_Hours_Delayed > h THEN Count(view, r) ELSE 0
            /\ \A i \in 1..(Len(rws) - 1) :
                  rws[i].No_of_Hours_Delayed >= rws[i + 1].No_of_Hours_Delayed
            /\ ( /\ Returned("get_delayed_bols")
                 /\ last.min_hours = 0
                 /\ h > 0 ) =>
                  \A r \in RowSet(rws) : Count(rws, r) <= Count(last.ret.val.rows, r)
      ]_vars

\* get_delayed_bols(12) left out a row delayed by exactly 12 hours and
\* returned one delayed by more
C18_Witness ==
    /\ Returned("get_delayed_bols")
    /\ last.min_hours = 12
    /\ last.ret.val.rows # <<>>
    /\ combined_df # None
    /\ \E i \in 1..Len(combined_df.rows) : combined_df.rows[i].No_of_Hours_Delayed = 12

\* C19: for every joined view the Total_Shipments of get_carrier_performance
\* sum to the number of joined rows, and each carrier's On_Time_Count is the
\* number of its rows with Delivery_Status "On Time", at most Total_Shipments.
C19_Carrier ==
    [][( /\ last'.op = "get_carrier_performance"
         /\ GetCarrierPerformance
         /\ combined_df # None ) =>
            /\ last'.ret.kind = "ok"
            /\ SumOf(last'.ret.val, "Total_Shipments") = Len(combined_df.rows)
            /\ \A i \in 1..Len(last'.ret.val) :
                LET stat == last'.ret.val[i] IN
                /\ stat.On_Time_Count =
                      Cardinality({j \in 1..Len(combined_df.rows) :
                          /\ combined_df.rows[j].Carrier_Name_bol = stat.Carrier
                          /\ combined_df.rows[j].Delivery_Status = "On Time"})
                /\ stat.On_Time_Count <= stat.Total_Shipments
      ]_vars

\* C13: generate_daily_alert_summary on a joined view without rows returns a
\* message and does not fail with a division by zero.
C13_EmptySummary ==
    [][( /\ last'.op = "generate_daily_alert_summary"
         /\ GenerateDailyAlertSummary
         /\ combined_df' # None
         /\ combined_df'.rows = <<>> ) =>
            last'.ret.kind = "ok"
      ]_vars

\* C20: save_report_to_file succeeds and returns the path also when the
\* reports folder does not exist: it creates the folder and writes the file.
C20_CreatesFolder ==
    [][\A report_content \in CONTENTS, filename \in FILENAMES :
        ( /\ last'.op = "save_report_to_file"
          /\ SaveReportToFile(report_content, filename)
          /\ ~report_folder.exists ) =>
            /\ last'.ret.kind = "ok"
            /\ report_folder'.exists
            /\ \E f \in report_folder'.files :
                  /\ f.content = report_content
                  /\ last'.ret.val = <<"./reports", f.name>>
      ]_vars

\* the three getters and the field each returns
GetterFields ==
    { <<"get_alert_data", "alert_df">>, <<"get_bol_data", "bol_df">>,
      <<"get_combined_data", "combined_df">> }

LoaderAfter == [alert_df |-> alert_df', bol_df |-> bol_df', combined_df |-> combined_df']

\* C21: a getter returns the cached table without reading the sources when its
\* table is loaded and runs exactly one load_data when it is not; after a
\* successful getter call all three tables are cached, so that no later getter
\* call loads.
C21_Getters ==
    [][\A g \in GetterFields :
        (last'.op = g[1] /\ GetterCall(g[1], g[2])) =>
            /\ Loader[g[2]] # None =>
                  /\ last'.ret = Ok(Loader[g[2]])
                  /\ LoaderAfter = Loader
            /\ Loader[g[2]] = None =>
                  LoaderAfter = LoadData(Loader, alert_file, bol_file).dl
            /\ last'.ret.kind = "ok" =>
                  /\ alert_df' # None
                  /\ bol_df' # None
                  /\ combined_df' # None
      ]_vars

\* C22: in every state the three cached tables are all absent, or all present
\* with the BOLs of the joined view being exactly the BOLs common to the cached
\* alert table and the cached BOL table.
C22_Consistent ==
    \/ /\ alert_df = None
       /\ bol_df = None
       /\ combined_df = None
    \/ /\ alert_df # None
       /\ bol_df # None
       /\ combined_df # None
       /\ BolsOf(combined_df) = BolsOf(alert_df) \cap BolsOf(bol_df)

\* the step is a call of stop_alert, add_note or send_email_alert
ActionStep ==
    /\ last'.op \in ActionOps
    /\ \/ /\ last'.op = "stop_alert"
          /\ \E reason \in REASONS : StopAlert(last'.bol, reason)
       \/ /\ last'.op = "add_note"
          /\ \E note \in NOTES, llm \in LLM : AddNote(last'.bol, note, llm)
       \/ /\ last'.op = "send_email_alert"
          /\ \E escalate \in BOOLEAN, llm \in LLM : SendEmailAlert(last'.bol, escalate, llm)

\* C23: an action call that returns success=false has changed neither the
\* alert table, the joined view nor the action log, and one that returns
\* success=true has added exactly one entry to the log; nothing else changes the
\* log, so its length is the number of successful action calls so far.
C23_FailureFrame ==
    [][IF ActionStep
       THEN IF last'.ret.val.success
            THEN Len(action_log') = Len(action_log) + 1
            ELSE /\ alert_df # None => alert_df' = alert_df
                 /\ combined_df # None => combined_df' = combined_df
                 /\ action_log' = action_log
       ELSE action_log' = action_log
      ]_vars

\* the lines that are an exit word once trimmed and lower-cased
ExitInputs == {"exit", "Quit", " bye"}

\* the pass of the loop this step records met a failure: a refresh or a status
\* that raised, a routed chat that raised or was interrupted or whose action
\* named an unknown BOL, or Ctrl-C at the prompt
FailedPass ==
    /\ pc = "loop"
    /\ last'.op = "input"
    /\ \/ "exc" \in DOMAIN last' /\ last'.exc # "none"
       \/ "chat" \in DOMAIN last' /\ last'.chat.end # "return"
       \/ "chat" \in DOMAIN last' /\ last'.chat.call = "stop_alert B9"
       \/ last'.handled = "KeyboardInterrupt"

\* C24: once initialization has succeeded the session ends only on an exit
\* word: a pass of the loop that met a failure leaves the loop running, ready
\* for the next line; when initialization fails the loop is never entered and
\* no line is read.
C24_OnlyExitEnds ==
    [][/\ (pc = "loop" /\ pc' # "loop") =>
              /\ last'.op = "input"
              /\ "text" \in DOMAIN last'
              /\ last'.text \in ExitInputs
       /\ (FailedPass /\ last' # last) => pc' = "loop"
       /\ (pc = "start" /\ ~initialized') => pc' = "done"
       /\ pc' = "loop" => initialized'
       /\ (last'.op = "input" /\ last' # last) => (initialized /\ pc = "loop")
       /\ pc = "done" => (pc' = "done" /\ last' = last)
      ]_vars

\* the session is still at the prompt after a refresh that raised, with the
\* spreadsheets gone and one chat behind it
C24_Witness ==
    /\ pc = "loop"
    /\ alert_file = Missing
    /\ chats = 1
    /\ last.op = "input"
    /\ "exc" \in DOMAIN last
    /\ last.handled = "refresh"
    /\ last.exc = "FileNotFoundError"

====
